---- MODULE Spec2Model ----
(***************************************************************************)
(* trayson: a StatusNotifierWatcher (registry) and StatusNotifierHost      *)
(* (aggregator) in one process, src/src/main.rs.                           *)
(*                                                                         *)
(* The model follows the tasks of main(): the start-up sequence, the       *)
(* watcher's bus methods (served by the bus library on its own executor),  *)
(* the for_each_concurrent discovery loop with one session per received    *)
(* StatusNotifierItemRegistered signal, the feedback loop reading the      *)
(* channel (s, r) and the aggregator loop reading the channel (s2, r2).    *)
(* A step of a task runs from one await that can suspend to the next.      *)
(* Option values are sequences: <<>> is None, <<x>> is Some(x).            *)
(***************************************************************************)
EXTENDS Integers, Sequences, FiniteSets, Bags, TLC

\* ------------------------------------------------------------- bounds
\* Calls of the watcher's methods made by bus callers (tray items, other hosts);
\* the calls the process makes itself are extra.
MaxBusCalls == 2
\* Length of the raw buffers the pixel conversion is tried on.
MaxRawLen == 8

\* ------------------------------------------------------ the environment
\* Bus names of tray items (the `service` argument of the watcher's methods).
Peers == {"p1", "p2"}
\* The name main registers as host, and one other caller's.
HostName == "org.kde.StatusNotifierHost-eww"
HostNames == {HostName, "org.example.Host"}
\* Each peer's Title property.
TitleOf == [p \in Peers |-> IF p = "p1" THEN "App1" ELSE "App2"]
\* Sample u8 values.
ByteSamples == {0, 10, 255}

\* One ARGB pixel [A=255,R=10,G=20,B=30] and one [A=0,R=30,G=20,B=10].
PixelA == <<255, 10, 20, 30>>
PixelB == <<0, 30, 20, 10>>
\* Values a peer's IconPixmap property may have: lists of (width, height, bytes).
PixScenario == << <<2, 2, PixelA \o PixelA \o PixelA \o PixelA>> >>
PixStrip == << <<4, 1, PixelA \o PixelA \o PixelA \o PixelA>>, <<1, 1, PixelB>> >>
PixEmpty == << >>
PixNegative == << <<-1, 1, PixelA>> >>
PixShort == << <<2, 2, PixelA>> >>
Pixmaps == {PixScenario, PixStrip, PixEmpty, PixNegative, PixShort}

\* --------------------------------------------------------------- state
VARIABLES
    pc,        \* where main() is
    conn,      \* per peer: its name has an owner that answers ("open"), has an
               \* owner that answers no call ("hung"), or has no owner ("closed")
    watcher,   \* the served StatusNotifierWatcher: registered, items
    emitted,   \* signals the watcher has emitted on the bus, with their counts
    calls,     \* watcher method invocations served, per method and argument
    reply,     \* result of the watcher method served last
    busCalls,  \* how many of the calls bus callers made
    stream,    \* StatusNotifierItemRegistered signals received and not yet taken
    sessions,  \* the futures for_each_concurrent holds, in launch order
    r,         \* the channel (s, r): services whose owner went away
    fb,        \* the feedback loop's call in flight
    r2,        \* the channel (s2, r2): (service, Option<Item>)
    applied,   \* the events the aggregator loop has received, in order
    items,     \* the aggregator's HashMap service -> Item
    frames,    \* the lines printed on stdout
    files,     \* the png files in the temporary directory
    raw,       \* a raw icon buffer (icon.2) given to the pixel conversion
    img,       \* the conversion's result, once computed
    got        \* the value a bus caller got from the property it read last

vars == <<pc, conn, watcher, emitted, calls, reply, busCalls, stream, sessions, r, fb, r2,
          applied, items, frames, files, raw, img, got>>

\* ------------------------------------------------------------ Option
None == << >>
Some(x) == <<x>>
IsSome(o) == o # << >>
Unwrap(o) == o[1]

\* ------------------------------------------------- the icon pipeline
\* (mutant) the bytes of a pixel kept in the order they came.
KeepPixel(pixel) == pixel

\* icon.2.chunks_exact(4) mapped to [pixel[1], pixel[2], pixel[3], pixel[0]] and
\* folded into one Vec: a trailing group of fewer than 4 bytes is dropped.
ReorderPixel(pixel) == <<pixel[2], pixel[3], pixel[4], pixel[1]>>

RECURSIVE Reorder(_)
Reorder(bytes) ==
    IF Len(bytes) < 4 THEN << >>
    ELSE ReorderPixel(SubSeq(bytes, 1, 4)) \o Reorder(SubSeq(bytes, 5, Len(bytes)))

\* DefaultHasher over Hash::hash_slice(&img): a function of the bytes alone (no
\* length prefix for u8, no width, no height). The 64-bit SipHash is modelled by
\* a positional fold of the bytes reduced to HashModulus.
HashModulus == 65536
HashStep(h, b) == (h * 257 + b + 1) % HashModulus

RECURSIVE HashFold(_, _)
HashFold(h, bytes) ==
    IF bytes = << >> THEN h
    ELSE HashFold(HashStep(h, Head(bytes)), Tail(bytes))

HashSlice(bytes) == HashFold(0, bytes)

\* format!("{:x}.png", hash): lower-case hexadecimal, no padding.
HexDigits == <<"0", "1", "2", "3", "4", "5", "6", "7",
               "8", "9", "a", "b", "c", "d", "e", "f">>

RECURSIVE Hex(_)
Hex(n) ==
    IF n < 16 THEN HexDigits[n + 1]
    ELSE Hex(n \div 16) \o HexDigits[(n % 16) + 1]

\* temp_dir() with the file name pushed onto it.
TempDir == "/tmp"
IconPath(bytes) == TempDir \o "/" \o Hex(HashSlice(bytes)) \o ".png"

\* u32::try_from / usize::try_from of an i32: None when negative.
TryFromI32(n) == IF n < 0 THEN None ELSE Some(n)

\* image::RgbaImage::from_vec(width, height, buf): None when the buffer is too
\* small for width * height pixels; the image holds width * height pixels.
FromVec(width, height, buf) ==
    IF Len(buf) < width * height * 4 THEN None
    ELSE Some([width |-> width, height |-> height,
               pixels |-> SubSeq(buf, 1, width * height * 4)])

\* a.save(path): the file at path is replaced by the encoding of the image.
Save(fs, path, image) ==
    [p \in DOMAIN fs \cup {path} |-> IF p = path THEN image ELSE fs[p]]

\* The synchronous part of the snapshot task between the IconPixmap reply and
\* s2.send: the Option of the Item built, None when an unwrap or the index [0]
\* panics. saveOk is whether a.save succeeds.
IconOf(pixmaps) == pixmaps[1]

BuildItem(title, pixmaps, saveOk) ==
    IF pixmaps = << >> THEN None
    ELSE LET icon == IconOf(pixmaps)
             rgba == Reorder(icon[3])
         IN  IF TryFromI32(icon[1]) = None \/ TryFromI32(icon[2]) = None THEN None
             ELSE IF FromVec(icon[1], icon[2], rgba) = None THEN None
             ELSE IF ~saveOk THEN None
             ELSE Some([title |-> title,
                        icon |-> [width |-> icon[1], height |-> icon[2],
                                  path |-> IconPath(rgba)]])

\* Whether the code reaches a.save, and the files after it.
ReachesSave(pixmaps) ==
    /\ pixmaps # << >>
    /\ TryFromI32(IconOf(pixmaps)[1]) # None
    /\ TryFromI32(IconOf(pixmaps)[2]) # None
    /\ FromVec(IconOf(pixmaps)[1], IconOf(pixmaps)[2], Reorder(IconOf(pixmaps)[3])) # None

FilesAfter(fs, pixmaps, saveOk) ==
    IF ReachesSave(pixmaps) /\ saveOk
    THEN LET icon == IconOf(pixmaps)
             rgba == Reorder(icon[3])
         IN  Save(fs, IconPath(rgba), Unwrap(FromVec(icon[1], icon[2], rgba)))
    ELSE fs

\* ------------------------------------------------- the end of the process
\* main returns an error ("exited") or a panic unwinds through it ("panicked"):
\* the process is gone, and with it the signal stream, the sessions, both
\* channels and the HashMap. What it printed, wrote and emitted stays.
Stopped == pc \in {"exited", "panicked"}

ProcessEnds(how) ==
    /\ pc' = how
    /\ stream' = << >>
    /\ sessions' = << >>
    /\ r' = << >>
    /\ fb' = None
    /\ r2' = << >>
    /\ items' = << >>

\* ------------------------------------------------------- the watcher
\* The signals of the interface and the property-changed notifications.
ItemRegistered(service) == <<"StatusNotifierItemRegistered", service>>
ItemUnregistered(service) == <<"StatusNotifierItemUnregistered", service>>
HostRegistered(service) == <<"StatusNotifierHostRegistered", service>>
ItemsChanged == <<"PropertiesChanged", "RegisteredStatusNotifierItems">>
HostChanged == <<"PropertiesChanged", "IsStatusNotifierHostRegistered">>

Notifications ==
    {ItemRegistered(p) : p \in Peers} \cup {ItemUnregistered(p) : p \in Peers}
        \cup {HostRegistered(h) : h \in HostNames} \cup {ItemsChanged, HostChanged}

\* The methods of the interface, with their argument.
RegisterItemCall(service) == <<"RegisterStatusNotifierItem", service>>
UnregisterItemCall(service) == <<"UnregisterStatusNotifierItem", service>>
RegisterHostCall(service) == <<"RegisterStatusNotifierHost", service>>

Calls ==
    {RegisterItemCall(p) : p \in Peers} \cup {UnregisterItemCall(p) : p \in Peers}
        \cup {RegisterHostCall(h) : h \in HostNames}

\* Where a method's emissions may fail with a transport error: nowhere, at the
\* property-changed notification (the first `?`), or at the signal (the second).
Failures == {"none", "changed", "signal"}

Emit(e, n) == [e EXCEPT ![n] = @ + 1]

\* (mutant) the signal first, then the property-changed notification.
EmitSignalFirst(e, changed, signal, fail) ==
    IF fail = "changed" THEN e
    ELSE IF fail = "signal" THEN Emit(e, signal)
    ELSE Emit(Emit(e, signal), changed)

\* What a method emits: the property-changed notification, then the signal; an
\* error at one returns before the rest.
EmitBoth(e, changed, signal, fail) ==
    IF fail = "changed" THEN e
    ELSE IF fail = "signal" THEN Emit(e, changed)
    ELSE Emit(Emit(e, changed), signal)

ReplyOf(fail) == IF fail = "none" THEN "ok" ELSE "err"

\* (mutant) an insert that drops what the set held.
InsertAlone(set, service) == {service}

\* self.items.insert(service.to_string()) / self.items.remove(&service.to_string())
InsertItem(set, service) == set \cup {service}
RemoveItem(set, service) == set \ {service}

\* The proxy's signal stream exists once main has subscribed; a signal emitted
\* before is not in it.
Subscribed == pc = "running"

\* (mutant) register that notifies only when the service is new.
RegisterOnlyNew(service, fail) ==
    /\ watcher' = [watcher EXCEPT !.items = InsertItem(@, service)]
    /\ emitted' = IF service \in watcher.items THEN emitted
                  ELSE EmitBoth(emitted, ItemsChanged, ItemRegistered(service), fail)
    /\ stream' = IF fail = "none" /\ Subscribed /\ service \notin watcher.items
                 THEN Append(stream, service) ELSE stream
    /\ calls' = [calls EXCEPT ![RegisterItemCall(service)] = @ + 1]
    /\ reply' = ReplyOf(fail)

\* fn register_status_notifier_item
RegisterStatusNotifierItem(service, fail) ==
    /\ watcher' = [watcher EXCEPT !.items = InsertItem(@, service)]
    /\ emitted' = EmitBoth(emitted, ItemsChanged, ItemRegistered(service), fail)
    /\ stream' = IF fail = "none" /\ Subscribed THEN Append(stream, service) ELSE stream
    /\ calls' = [calls EXCEPT ![RegisterItemCall(service)] = @ + 1]
    /\ reply' = ReplyOf(fail)

\* (mutant) unregister that notifies only when the service was registered.
UnregisterOnlyPresent(service, fail) ==
    /\ watcher' = [watcher EXCEPT !.items = RemoveItem(@, service)]
    /\ emitted' = IF service \notin watcher.items THEN emitted
                  ELSE EmitBoth(emitted, ItemsChanged, ItemUnregistered(service), fail)
    /\ calls' = [calls EXCEPT ![UnregisterItemCall(service)] = @ + 1]
    /\ reply' = ReplyOf(fail)

\* fn unregister_status_notifier_item
UnregisterStatusNotifierItem(service, fail) ==
    /\ watcher' = [watcher EXCEPT !.items = RemoveItem(@, service)]
    /\ emitted' = EmitBoth(emitted, ItemsChanged, ItemUnregistered(service), fail)
    /\ calls' = [calls EXCEPT ![UnregisterItemCall(service)] = @ + 1]
    /\ reply' = ReplyOf(fail)

\* (mutant) a host registration that flips the flag.
RegisterHostToggle(service, fail) ==
    /\ watcher' = [watcher EXCEPT !.registered = ~@]
    /\ emitted' = EmitBoth(emitted, HostChanged, HostRegistered(service), fail)
    /\ calls' = [calls EXCEPT ![RegisterHostCall(service)] = @ + 1]
    /\ reply' = ReplyOf(fail)

\* fn register_status_notifier_host
RegisterStatusNotifierHost(service, fail) ==
    /\ watcher' = [watcher EXCEPT !.registered = TRUE]
    /\ emitted' = EmitBoth(emitted, HostChanged, HostRegistered(service), fail)
    /\ calls' = [calls EXCEPT ![RegisterHostCall(service)] = @ + 1]
    /\ reply' = ReplyOf(fail)

\* The properties.
ProtocolVersion == 1
IsStatusNotifierHostRegistered == watcher.registered
RegisteredStatusNotifierItems == watcher.items

\* The watcher is reachable from the moment c1 is built until the process ends.
Served == pc \in {"served", "hosted", "running"}

\* A bus caller (a tray item) registers a service.
BusRegisterItem(service, fail) ==
    /\ Served
    /\ busCalls < MaxBusCalls
    /\ busCalls' = busCalls + 1
    /\ RegisterStatusNotifierItem(service, fail)
    /\ UNCHANGED <<pc, conn, sessions, r, fb, r2, applied, items, frames, files, raw, img, got>>

\* A bus caller unregisters a service.
BusUnregisterItem(service, fail) ==
    /\ Served
    /\ busCalls < MaxBusCalls
    /\ busCalls' = busCalls + 1
    /\ UnregisterStatusNotifierItem(service, fail)
    /\ UNCHANGED <<pc, conn, stream, sessions, r, fb, r2, applied, items, frames,
                   files, raw, img, got>>

\* A bus caller registers a host.
BusRegisterHost(service, fail) ==
    /\ Served
    /\ busCalls < MaxBusCalls
    /\ busCalls' = busCalls + 1
    /\ RegisterStatusNotifierHost(service, fail)
    /\ UNCHANGED <<pc, conn, stream, sessions, r, fb, r2, applied, items, frames,
                   files, raw, img, got>>

\* A bus caller reads a property: what it gets is a value of its own, the
\* elements of the set when the property is the item list.
Properties ==
    {"ProtocolVersion", "IsStatusNotifierHostRegistered", "RegisteredStatusNotifierItems"}

PropertyValue(prop) ==
    IF prop = "ProtocolVersion" THEN ProtocolVersion
    ELSE IF prop = "IsStatusNotifierHostRegistered" THEN IsStatusNotifierHostRegistered
    ELSE RegisteredStatusNotifierItems

BusGetProperty(prop) ==
    /\ Served
    /\ busCalls < MaxBusCalls
    /\ busCalls' = busCalls + 1
    /\ got' = Some([prop |-> prop, value |-> PropertyValue(prop)])
    /\ UNCHANGED <<pc, conn, watcher, emitted, calls, reply, stream, sessions, r, fb, r2,
                   applied, items, frames, files, raw, img>>

\* A peer's connection closes: its name loses its owner, and every session whose
\* owner_change stream is subscribed gets the NameOwnerChanged with no new owner.
NotifyOwnerGone(ss, peer) ==
    [i \in 1..Len(ss) |->
        IF ss[i].service = peer /\ ss[i].live = "watch"
        THEN [ss[i] EXCEPT !.live = "absent"] ELSE ss[i]]

PeerClose(peer) ==
    /\ ~Stopped
    /\ conn[peer] # "closed"
    /\ conn' = [conn EXCEPT ![peer] = "closed"]
    /\ sessions' = NotifyOwnerGone(sessions, peer)
    /\ UNCHANGED <<busCalls, pc, watcher, emitted, calls, reply, stream, r, fb, r2, applied,
                   items, frames, files, raw, img, got>>

\* A peer stops answering calls (it keeps its connection): a get_property sent
\* to it stays pending.
PeerHang(peer) ==
    /\ ~Stopped
    /\ conn[peer] = "open"
    /\ conn' = [conn EXCEPT ![peer] = "hung"]
    /\ UNCHANGED <<busCalls, pc, watcher, emitted, calls, reply, stream, sessions, r, fb, r2,
                   applied, items, frames, files, raw, img, got>>

\* ------------------------------------------------------ main: start-up
\* c1, the connection that owns org.kde.StatusNotifierWatcher and serves the
\* watcher, and c2, the connection that owns the host name, are built; `?` returns
\* from main on an error.
BuildConnections(ok) ==
    /\ pc = "start"
    /\ pc' = IF ok THEN "served" ELSE "exited"
    /\ UNCHANGED <<busCalls, conn, watcher, emitted, calls, reply, stream, sessions, r, fb, r2,
                   applied, items, frames, files, raw, img, got>>

\* c1.call_method(... "RegisterStatusNotifierHost" ...).await?
MainRegisterHost(fail) ==
    /\ pc = "served"
    /\ RegisterStatusNotifierHost(HostName, fail)
    /\ IF fail = "none"
       THEN pc' = "hosted" /\ UNCHANGED <<stream, sessions, r, fb, r2, items>>
       ELSE ProcessEnds("exited")
    /\ UNCHANGED <<busCalls, conn, applied, frames, files, raw, img, got>>

\* The proxy is built and receive_status_notifier_item_registered subscribes; the
\* channels and the HashMap are created and the three tasks are joined.
Subscribe(ok) ==
    /\ pc = "hosted"
    /\ IF ok
       THEN pc' = "running" /\ UNCHANGED <<stream, sessions, r, fb, r2, items>>
       ELSE ProcessEnds("panicked")
    /\ UNCHANGED <<busCalls, conn, watcher, emitted, calls, reply, applied, frames, files, raw, img, got>>

\* ------------------------------------------------ the discovery loop
\* The state of a session's future: where its snapshot task and its liveness task
\* are, and the snapshot task's locals.
NewSession(service) ==
    [service |-> service, snap |-> "fetch", live |-> "watch",
     title |-> None, icon |-> None, item |-> None]

\* (mutant) for_each: the next signal is taken when the session before is over.
OneAtATime(ss) == ss = << >>

\* for_each_concurrent(None, ..): no limit on the futures in flight.
HasRoom(ss) == TRUE

\* for_each_concurrent takes the next signal and runs the session up to its
\* try_join: c3 and the item proxy are built, receive_owner_changed and
\* receive_all_signals subscribe, each unwrapped. A panic in a session's future
\* unwinds through task1 and the outer try_join into main.
DiscoveryLaunch(ok) ==
    /\ pc = "running"
    /\ stream # << >>
    /\ HasRoom(sessions)
    /\ IF ok
       THEN /\ sessions' = Append(sessions, NewSession(Head(stream)))
            /\ stream' = Tail(stream)
            /\ UNCHANGED <<pc, r, fb, r2, items>>
       ELSE ProcessEnds("panicked")
    /\ UNCHANGED <<busCalls, conn, watcher, emitted, calls, reply, applied, frames, files, raw, img, got>>

\* What a property fetch can return: an error when the name has no owner, a value
\* or a transport error when it has one that answers, nothing while it has one
\* that does not.
TitleReplies(service) ==
    IF conn[service] = "open" THEN {Some(TitleOf[service]), None}
    ELSE IF conn[service] = "hung" THEN {}
    ELSE {None}
IconReplies(service) ==
    IF conn[service] = "open" THEN {Some(px) : px \in Pixmaps} \cup {None}
    ELSE IF conn[service] = "hung" THEN {}
    ELSE {None}

\* s2.send((args.service.to_string(), Some(item.clone())))
SendSome(chan, service, item) == Append(chan, [service |-> service, item |-> Some(item)])

\* The snapshot task up to its wait on the peer's signals: the Title reply and the
\* IconPixmap reply, each unwrapped, and after them without suspending the
\* conversion, the hash, the file, the Item and s2.send (the channel is
\* unbounded). Between the two fetches the task touches nothing shared, so they
\* are one step.
SnapshotFetch(i, titleRep, iconRep, saveOk) ==
    LET s == sessions[i]
        built == IF IsSome(titleRep) /\ IsSome(iconRep)
                 THEN BuildItem(Unwrap(titleRep), Unwrap(iconRep), saveOk)
                 ELSE None
    IN  /\ pc = "running"
        /\ s.snap = "fetch"
        /\ titleRep \in TitleReplies(s.service)
        /\ iconRep \in IconReplies(s.service)
        /\ files' = IF IsSome(titleRep) /\ IsSome(iconRep)
                    THEN FilesAfter(files, Unwrap(iconRep), saveOk) ELSE files
        /\ IF IsSome(built)
           THEN /\ sessions' = [sessions EXCEPT ![i].snap = "drain",
                                                ![i].title = titleRep,
                                                ![i].icon = Some(IconOf(Unwrap(iconRep))),
                                                ![i].item = built]
                /\ r2' = SendSome(r2, s.service, Unwrap(built))
                /\ UNCHANGED <<pc, stream, r, fb, items>>
           ELSE ProcessEnds("panicked")
        /\ UNCHANGED <<busCalls, conn, watcher, emitted, calls, reply, applied, frames, raw, img, got>>

\* try_join! of the two tasks returns when both have: the liveness task after its
\* s.send, the snapshot task after signals.for_each, which ends with the signal
\* stream; the stream of a proxy on the session's own connection c3 does not end
\* while the session holds c3, so no step of the model leaves "drain".
Joined(s) == s.snap = "returned" /\ s.live = "sent"

\* (mutant) the liveness task removes the peer itself.
RemoveDirectly(chan, service) == Append(chan, [service |-> service, item |-> None])

\* (mutant) a liveness task that reports its peer twice.
DeathNoticeTwice(chan, service) == Append(Append(chan, service), service)

\* What the liveness task does when owner_change yields None: it leaves the loop
\* and sends the service on s, and nothing on s2.
DeathNotice(chan, service) == Append(chan, service)
DirectRemoval(chan, service) == chan

LivenessObserve(i) ==
    /\ pc = "running"
    /\ sessions[i].live = "absent"
    /\ sessions' = [sessions EXCEPT ![i].live = "sent"]
    /\ r' = DeathNotice(r, sessions[i].service)
    /\ r2' = DirectRemoval(r2, sessions[i].service)
    /\ UNCHANGED <<busCalls, pc, conn, watcher, emitted, calls, reply, stream, fb, applied, items,
                   frames, files, raw, img, got>>

\* ------------------------------------------------- the feedback loop
\* r.recv(), and the call of UnregisterStatusNotifierItem with the service: the
\* watcher serves it, and the loop waits for the reply.
FeedbackCall(fail) ==
    /\ pc = "running"
    /\ fb = None
    /\ r # << >>
    /\ UnregisterStatusNotifierItem(Head(r), fail)
    /\ fb' = Some([service |-> Head(r), reply |-> ReplyOf(fail)])
    /\ r' = Tail(r)
    /\ UNCHANGED <<busCalls, pc, conn, stream, sessions, r2, applied, items, frames, files, raw, img, got>>

\* (mutant) a feedback loop that sends nothing after its call.
SendNothing(chan, service) == chan

\* s2.send((service, None))
SendNone(chan, service) == Append(chan, [service |-> service, item |-> None])

\* The reply arrives: .unwrap(), then s2.send((service, None)).
FeedbackResume ==
    /\ pc = "running"
    /\ fb # None
    /\ IF fb[1].reply = "ok"
       THEN /\ r2' = SendNone(r2, fb[1].service)
            /\ fb' = None
            /\ UNCHANGED <<pc, stream, sessions, r, items>>
       ELSE ProcessEnds("panicked")
    /\ UNCHANGED <<busCalls, conn, watcher, emitted, calls, reply, applied, frames, files, raw, img, got>>

\* ---------------------------------------------------- the aggregator
\* (mutant) the map is replaced by the one entry: a delta, not the full set.
MapOnly(m, k, v) == [x \in {k} |-> v]

\* (mutant) a removal that leaves the entry.
MapKeep(m, k) == m

\* items.insert(service, v) / items.remove(&service)
MapInsert(m, k, v) == [x \in DOMAIN m \cup {k} |-> IF x = k THEN v ELSE m[x]]
MapRemove(m, k) == [x \in DOMAIN m \ {k} |-> m[x]]

\* (mutant) a removal that empties the map.
ApplyClear(m, ev) ==
    IF IsSome(ev.item) THEN MapInsert(m, ev.service, Unwrap(ev.item))
    ELSE << >>

ApplyEvent(m, ev) ==
    IF IsSome(ev.item) THEN MapInsert(m, ev.service, Unwrap(ev.item))
    ELSE MapRemove(m, ev.service)

\* json!(items.values().collect::<Vec<&Item>>()): the values, in no order.
Frame(m) ==
    [v \in {m[k] : k \in DOMAIN m} |-> Cardinality({k \in DOMAIN m : m[k] = v})]

\* (mutant) a receive that takes the newest message first.
RecvNewest(chan) ==
    [event |-> chan[Len(chan)], rest |-> SubSeq(chan, 1, Len(chan) - 1)]

\* r2.recv(): the channel delivers in the order of the sends.
Recv(chan) == [event |-> Head(chan), rest |-> Tail(chan)]

\* r2.recv(), the update of the map and println!.
Aggregate ==
    /\ pc = "running"
    /\ r2 # << >>
    /\ applied' = Append(applied, Recv(r2).event)
    /\ items' = ApplyEvent(items, Recv(r2).event)
    /\ frames' = Append(frames, Frame(items'))
    /\ r2' = Recv(r2).rest
    /\ UNCHANGED <<busCalls, pc, conn, watcher, emitted, calls, reply, stream, sessions, r, fb,
                   files, raw, img, got>>

\* ------------------------------------------------------ specification
InitSystem ==
    /\ pc = "start"
    /\ conn = [p \in Peers |-> "open"]
    /\ watcher = [registered |-> FALSE, items |-> {}]
    /\ emitted = [n \in Notifications |-> 0]
    /\ calls = [c \in Calls |-> 0]
    /\ reply = "none"
    /\ busCalls = 0
    /\ stream = << >>
    /\ sessions = << >>
    /\ r = << >>
    /\ fb = None
    /\ r2 = << >>
    /\ applied = << >>
    /\ items = << >>
    /\ frames = << >>
    /\ files = << >>
    /\ got = None

Init == InitSystem /\ raw = << >> /\ img = None

Next ==
    \/ \E ok \in BOOLEAN : BuildConnections(ok)
    \/ \E fail \in Failures : MainRegisterHost(fail)
    \/ \E ok \in BOOLEAN : Subscribe(ok)
    \/ \E p \in Peers, fail \in Failures : BusRegisterItem(p, fail)
    \/ \E p \in Peers, fail \in Failures : BusUnregisterItem(p, fail)
    \/ \E h \in HostNames, fail \in Failures : BusRegisterHost(h, fail)
    \/ \E p \in Peers : PeerClose(p)
    \/ \E ok \in BOOLEAN : DiscoveryLaunch(ok)
    \/ \E i \in 1..Len(sessions), titleRep \in {Some(TitleOf[p]) : p \in Peers} \cup {None},
          iconRep \in {Some(px) : px \in Pixmaps} \cup {None}, saveOk \in BOOLEAN :
            SnapshotFetch(i, titleRep, iconRep, saveOk)
    \/ \E i \in 1..Len(sessions) : LivenessObserve(i)
    \/ \E fail \in Failures : FeedbackCall(fail)
    \/ FeedbackResume
    \/ Aggregate

Spec == Init /\ [][Next]_vars

\* The process in an environment where a peer may also hang, under the
\* scheduling of the executor: main's awaits return, and each task that can take
\* a step (the discovery loop with a signal waiting, a session's snapshot task
\* whose replies can arrive, a liveness task that was notified, the feedback loop
\* and the aggregator with a message waiting) takes it. Nothing is assumed of the
\* bus callers and the peers.
FairNext == Next \/ \E p \in Peers : PeerHang(p)

Fairness ==
    /\ WF_vars(\E ok \in BOOLEAN : BuildConnections(ok))
    /\ WF_vars(\E fail \in Failures : MainRegisterHost(fail))
    /\ WF_vars(\E ok \in BOOLEAN : Subscribe(ok))
    /\ WF_vars(\E ok \in BOOLEAN : DiscoveryLaunch(ok))
    /\ \A i \in 1..MaxBusCalls :
            /\ WF_vars(/\ i <= Len(sessions)
                       /\ \E titleRep \in {Some(TitleOf[p]) : p \in Peers} \cup {None},
                             iconRep \in {Some(px) : px \in Pixmaps} \cup {None},
                             saveOk \in BOOLEAN :
                               SnapshotFetch(i, titleRep, iconRep, saveOk))
            /\ WF_vars(i <= Len(sessions) /\ LivenessObserve(i))
    /\ WF_vars(\E fail \in Failures : FeedbackCall(fail))
    /\ WF_vars(FeedbackResume)
    /\ WF_vars(Aggregate)

FairSpec == Init /\ [][FairNext]_vars /\ Fairness

\* The process with bus callers that also read the watcher's properties.
WatcherNext == Next \/ \E prop \in Properties : BusGetProperty(prop)

WatcherSpec == Init /\ [][WatcherNext]_vars

\* The pixel conversion alone, on every buffer of ByteSamples up to MaxRawLen.
RawBuffers == UNION {[1..n -> ByteSamples] : n \in 0..MaxRawLen}

ConvertInit == InitSystem /\ raw \in RawBuffers /\ img = None

Convert ==
    /\ img = None
    /\ img' = Some(Reorder(raw))
    /\ UNCHANGED <<busCalls, pc, conn, watcher, emitted, calls, reply, stream, sessions, r, fb,
                   r2, applied, items, frames, files, raw, got>>

ConvertNext == Convert

ConvertSpec == ConvertInit /\ [][ConvertNext]_vars

\* ============================================================ claims
NoneEvent(p) == [service |-> p, item |-> None]
IsSomeFor(ev, p) == ev.service = p /\ IsSome(ev.item)
\* The sessions that have sent their snapshot.
Sent == {i \in 1..Len(sessions) : sessions[i].snap = "drain"}
\* Everything sent on s2, in the order of the sends, while the process runs.
SentOnS2 == applied \o r2
CountIn(seq, x) == Cardinality({k \in 1..Len(seq) : seq[k] = x})

\* C1 (channel ordering): for every peer, no (peer, None) event is applied by the
\* aggregator before a (peer, Some) event of that peer; and once the process has
\* applied a (peer, None), the map does not hold the peer and the last frame
\* printed is the frame of that map.
C1_ChannelOrdering ==
    \A p \in Peers :
        /\ \A j, k \in 1..Len(applied) :
                applied[j] = NoneEvent(p) /\ IsSomeFor(applied[k], p) => k < j
        /\ (pc = "running" /\ \E j \in 1..Len(applied) : applied[j] = NoneEvent(p))
                => /\ p \notin DOMAIN items
                   /\ frames[Len(frames)] = Frame(items)

\* C1 witness: p1's snapshot then p1's removal were applied, with an event of p2
\* between them.
C1_Witness ==
    /\ pc = "running"
    /\ \E j, k, l \in 1..Len(applied) :
            /\ j < l /\ l < k
            /\ IsSomeFor(applied[j], "p1")
            /\ applied[l].service = "p2"
            /\ applied[k] = NoneEvent("p1")

\* C2 (full-frame emission): when sessions of distinct peers have each sent one
\* snapshot, no removal has been sent, and the aggregator has received them all,
\* the last frame printed holds exactly those snapshots, one per session.
SnapshotsSent ==
    [v \in {Unwrap(sessions[i].item) : i \in Sent} |->
        Cardinality({i \in Sent : Unwrap(sessions[i].item) = v})]

C2_Case ==
    /\ pc = "running"
    /\ Sent # {}
    /\ \A i, j \in Sent : sessions[i].service = sessions[j].service => i = j
    /\ \A k \in 1..Len(SentOnS2) : IsSome(SentOnS2[k].item)
    /\ r2 = << >>

C2_FullFrame ==
    C2_Case =>
        /\ Len(frames) = Cardinality(Sent)
        /\ frames[Len(frames)] = SnapshotsSent
        /\ BagCardinality(frames[Len(frames)]) = Cardinality(Sent)

\* C2 witness: two peers, two snapshots, both received.
C2_Witness == C2_Case /\ Cardinality(Sent) = 2 /\ Len(applied) = 2

\* C3 (idempotent registration): every served register(p) leaves the set equal to
\* the old set with p, which is the old set when p was in it; and every such call
\* that returns Ok has emitted one property-changed notification for the item
\* list and one "registered" signal naming p, whether or not p was in the set.
C3_Step(p) ==
    calls'[RegisterItemCall(p)] = calls[RegisterItemCall(p)] + 1
        => /\ watcher'.items = watcher.items \cup {p}
           /\ (p \in watcher.items => watcher'.items = watcher.items)
           /\ (reply' = "ok"
                 => /\ emitted'[ItemRegistered(p)] = emitted[ItemRegistered(p)] + 1
                    /\ emitted'[ItemsChanged] = emitted[ItemsChanged] + 1)

C3_IdempotentRegister == [][\A p \in Peers : C3_Step(p)]_vars

\* C3 witness: register("p1") was called twice and nothing else; both calls
\* returned Ok: the set is {p1}, two signals and two notifications were emitted.
C3_Witness ==
    /\ calls[RegisterItemCall("p1")] = 2
    /\ busCalls = 2
    /\ watcher.items = {"p1"}
    /\ emitted[ItemRegistered("p1")] = 2
    /\ emitted[ItemsChanged] = 2

\* C4 (idempotent unregistration): every served unregister(p) leaves the set equal
\* to the old set without p, which is the old set when p was not in it; and every
\* such call that returns Ok has emitted one property-changed notification and one
\* "unregistered" signal naming p, whether or not p was in the set.
C4_Step(p) ==
    calls'[UnregisterItemCall(p)] = calls[UnregisterItemCall(p)] + 1
        => /\ watcher'.items = watcher.items \ {p}
           /\ (p \notin watcher.items => watcher'.items = watcher.items)
           /\ (reply' = "ok"
                 => /\ emitted'[ItemUnregistered(p)] = emitted[ItemUnregistered(p)] + 1
                    /\ emitted'[ItemsChanged] = emitted[ItemsChanged] + 1)

C4_IdempotentUnregister == [][\A p \in Peers : C4_Step(p)]_vars

\* C4 witness: p2 is registered, p1 never was, and unregister("p1") returned Ok:
\* the set is unchanged and the "unregistered" signal for p1 was emitted.
C4_Witness ==
    /\ calls[RegisterItemCall("p1")] = 0
    /\ calls[UnregisterItemCall("p1")] = 1
    /\ calls[RegisterItemCall("p2")] = 1
    /\ watcher.items = {"p2"}
    /\ emitted[ItemUnregistered("p1")] = 1
    /\ emitted[ItemsChanged] = 2

\* C5 (per-session error containment): when a session fails (its set-up fails, a
\* property fetch returns an error, the pixmap list is empty, a size is negative,
\* the buffer is too small), the process keeps running and the watcher's set and
\* the aggregate map are as they were.
SessionFails ==
    \/ DiscoveryLaunch(FALSE)
    \/ \E i \in 1..Len(sessions), titleRep \in {Some(TitleOf[p]) : p \in Peers} \cup {None},
          iconRep \in {Some(px) : px \in Pixmaps} \cup {None} :
            /\ SnapshotFetch(i, titleRep, iconRep, TRUE)
            /\ \/ titleRep = None
               \/ iconRep = None
               \/ BuildItem(Unwrap(titleRep), Unwrap(iconRep), TRUE) = None

C5_ErrorContained ==
    [][SessionFails => pc' = "running" /\ watcher' = watcher /\ items' = items]_vars

\* C6 (end-to-end scenario): when one peer has registered, once, and no other,
\* and its session has fetched a valid title and icon and sent the snapshot, the
\* frames printed are: nothing yet, or the frame holding that snapshot alone, or
\* that frame and then the empty frame, the second once the peer's removal was
\* received.
OnlyRegistered(p) ==
    /\ calls[RegisterItemCall(p)] = 1
    /\ \A q \in Peers \ {p} : calls[RegisterItemCall(q)] = 0

ItemOf(p, pixmaps) ==
    [title |-> TitleOf[p],
     icon |-> [width |-> pixmaps[1][1], height |-> pixmaps[1][2],
               path |-> IconPath(Reorder(pixmaps[1][3]))]]

ValidPixmaps == {PixScenario, PixStrip}

C6_Case(p) ==
    /\ OnlyRegistered(p)
    /\ pc = "running"
    /\ Sent = {1}

C6_Scenario ==
    \A p \in Peers :
        C6_Case(p) =>
            /\ Unwrap(sessions[1].item) \in {ItemOf(p, px) : px \in ValidPixmaps}
            /\ frames \in { << >>,
                            << SetToBag({Unwrap(sessions[1].item)}) >>,
                            << SetToBag({Unwrap(sessions[1].item)}), EmptyBag >> }
            /\ Len(frames) = Len(applied)
            /\ Len(frames) = 2 <=> (Len(applied) > 0 /\ applied[Len(applied)] = NoneEvent(p))

\* C6 witness: p1 registered once with the 2x2 icon of [255,10,20,30] pixels,
\* its connection closed, and both frames were printed.
C6_Witness ==
    /\ C6_Case("p1")
    /\ conn["p1"] = "closed"
    /\ frames = << SetToBag({[title |-> "App1",
                              icon |-> [width |-> 2, height |-> 2,
                                        path |-> IconPath(<<10, 20, 30, 255, 10, 20, 30, 255,
                                                            10, 20, 30, 255, 10, 20, 30, 255>>)]]}),
                   EmptyBag >>

\* C7 as claimed (removal does not wait for the registry): the step in which a
\* liveness task reports its peer's departure also puts (peer, None) on s2.
C7_DirectRemoval ==
    [][\A i \in 1..Len(sessions) :
            (sessions[i].live = "absent" /\ Len(sessions') = Len(sessions)
                /\ sessions'[i].live = "sent")
                => CountIn(r2', NoneEvent(sessions[i].service))
                        > CountIn(r2, NoneEvent(sessions[i].service))]_vars

\* C7 as amended: the liveness task puts nothing on s2; a (peer, None) is put on
\* s2 only by the feedback loop, in a step it takes holding the Ok reply of its
\* UnregisterStatusNotifierItem(peer) call.
C7_RemovalAfterUnregister ==
    [][\A p \in Peers :
            CountIn(r2', NoneEvent(p)) > CountIn(r2, NoneEvent(p))
                => /\ fb = Some([service |-> p, reply |-> "ok"])
                   /\ calls[UnregisterItemCall(p)] >= 1
                   /\ \A i \in 1..Len(sessions) : sessions'[i].live = sessions[i].live]_vars

\* C7 witness: p1's departure was reported, the watcher served the unregister
\* call, and (p1, None) is on s2.
C7_Witness ==
    /\ pc = "running"
    /\ fb = None
    /\ calls[UnregisterItemCall("p1")] = 1
    /\ CountIn(r2, NoneEvent("p1")) = 1

\* C8 (consumer flag is monotonic): every served registerConsumer(name) leaves
\* the flag true and, when it returns Ok, has emitted the "host registered"
\* signal naming name and the flag's property-changed notification; the flag is a
\* boolean, and no step makes a true flag false.
C8_Step(h) ==
    calls'[RegisterHostCall(h)] = calls[RegisterHostCall(h)] + 1
        => /\ watcher'.registered = TRUE
           /\ (reply' = "ok"
                 => /\ emitted'[HostRegistered(h)] = emitted[HostRegistered(h)] + 1
                    /\ emitted'[HostChanged] = emitted[HostChanged] + 1)

C8_ConsumerMonotonic ==
    [][/\ \A h \in HostNames : C8_Step(h)
       /\ watcher'.registered \in BOOLEAN
       /\ IsStatusNotifierHostRegistered => IsStatusNotifierHostRegistered']_vars

\* C8 witness: main and another host have registered, a service was registered
\* and unregistered afterwards, and the flag is true.
C8_Witness ==
    /\ IsStatusNotifierHostRegistered
    /\ emitted[HostRegistered(HostName)] = 1
    /\ \E p \in Peers : emitted[ItemUnregistered(p)] = 1 /\ emitted[ItemRegistered(p)] = 1

\* C9 (pixel channel reordering): the conversion of a raw buffer has one 4-byte
\* group [R,G,B,A] for each complete group [A,R,G,B] of the input, at the same
\* position; its length is the input's when that is a multiple of 4.
C9_PixelReorder ==
    img # None =>
        LET out == Unwrap(img)
            n == Len(raw) \div 4
        IN  /\ Len(out) = 4 * n
            /\ (Len(raw) % 4 = 0 => Len(out) = Len(raw))
            /\ \A k \in 0..(n - 1) :
                    /\ out[4 * k + 1] = raw[4 * k + 2]
                    /\ out[4 * k + 2] = raw[4 * k + 3]
                    /\ out[4 * k + 3] = raw[4 * k + 4]
                    /\ out[4 * k + 4] = raw[4 * k + 1]

\* C9 witness: two pixels, converted.
C9_Witness ==
    /\ raw = <<255, 10, 0, 0, 0, 255, 10, 10>>
    /\ img = Some(<<10, 0, 0, 255, 255, 10, 10, 0>>)

\* C10 (content addressing): every session that has stored its icon finds, at the
\* path of its Item, a file that decodes to the width, the height and the pixels
\* it stored; and two sessions that stored the same width, height and bytes have
\* the same path.
Stored(i) ==
    [width |-> Unwrap(sessions[i].icon)[1], height |-> Unwrap(sessions[i].icon)[2],
     pixels |-> Reorder(Unwrap(sessions[i].icon)[3])]

C10_ContentAddressed ==
    /\ \A i \in Sent :
            LET path == Unwrap(sessions[i].item).icon.path
            IN  path \in DOMAIN files /\ files[path] = Stored(i)
    /\ \A i, j \in Sent :
            Stored(i) = Stored(j)
                => Unwrap(sessions[i].item).icon.path = Unwrap(sessions[j].item).icon.path

\* C11 (aggregator step semantics): every step in which the aggregator processes
\* an event (service, Some(item)) leaves the map with that key bound to item and
\* every other key as it was; every step processing (service, None) leaves the map
\* without that key and every other key as it was, which is the same map when the
\* key was not in it; each such step prints exactly one more frame, the bag of all
\* the values of the new map; no other step prints; and the number of frames
\* printed is always the number of events processed.
Processed == Len(applied') = Len(applied) + 1

C11_MapStep ==
    LET ev == applied'[Len(applied')]
        others == DOMAIN items \ {ev.service}
    IN  /\ \A k \in others : k \in DOMAIN items' /\ items'[k] = items[k]
        /\ IF IsSome(ev.item)
           THEN /\ DOMAIN items' = DOMAIN items \cup {ev.service}
                /\ items'[ev.service] = Unwrap(ev.item)
           ELSE /\ DOMAIN items' = others
                /\ (ev.service \notin DOMAIN items => items' = items)

C11_FrameStep ==
    LET frame == frames'[Len(frames')]
    IN  /\ Len(frames') = Len(frames) + 1
        /\ SubSeq(frames', 1, Len(frames)) = frames
        /\ BagToSet(frame) = {items'[k] : k \in DOMAIN items'}
        /\ BagCardinality(frame) = Cardinality(DOMAIN items')
        /\ \A v \in BagToSet(frame) :
                CopiesIn(v, frame) = Cardinality({k \in DOMAIN items' : items'[k] = v})

C11_AggregatorStep ==
    /\ [](Len(frames) = Len(applied))
    /\ [][/\ Processed => C11_MapStep /\ C11_FrameStep
          /\ frames' # frames => Processed]_vars

\* C11 witness: p2's snapshot was processed, then a removal of p1, which was not
\* in the map: two frames, the second equal to the first.
C11_Witness ==
    /\ pc = "running"
    /\ Len(applied) = 2
    /\ IsSomeFor(applied[1], "p2")
    /\ applied[2] = NoneEvent("p1")
    /\ Len(frames) = 2
    /\ frames[2] = frames[1]
    /\ DOMAIN items = {"p2"}

\* C12 (one snapshot, one departure report per session): while the process runs,
\* the (peer, Some) events sent on s2 are one for each session of the peer that
\* has sent its snapshot and none for the others; a session's liveness task sends
\* on s only in the step in which it leaves its loop on an absent owner, once,
\* and the peer's name has no owner then; every identifier so sent is either
\* still in r, or the argument of the one UnregisterStatusNotifierItem call the
\* feedback loop has in flight, or has become one (peer, None) on s2; the feedback
\* loop makes one call for each identifier it takes from r.
SessionsOf(p) == {i \in 1..Len(sessions) : sessions[i].service = p}
Reported(p) == {i \in SessionsOf(p) : sessions[i].live = "sent"}
SomeCount(seq, p) == Cardinality({k \in 1..Len(seq) : IsSomeFor(seq[k], p)})
InFlight(p) == IF fb # None /\ fb[1].service = p THEN 1 ELSE 0

C12_Counts ==
    pc = "running" =>
        \A p \in Peers :
            /\ SomeCount(SentOnS2, p) = Cardinality(Sent \cap SessionsOf(p))
            /\ CountIn(r, p) + InFlight(p) + CountIn(SentOnS2, NoneEvent(p))
                    = Cardinality(Reported(p))
            /\ Reported(p) # {} => conn[p] = "closed"

C12_Steps ==
    /\ Len(r') > Len(r) =>
            \E i \in 1..Len(sessions) :
                /\ sessions[i].live = "absent" /\ sessions'[i].live = "sent"
                /\ conn[sessions[i].service] = "closed"
                /\ r' = Append(r, sessions[i].service)
                /\ \A j \in 1..Len(sessions) : j # i => sessions'[j] = sessions[j]
    /\ (fb = None /\ fb' # None) =>
            /\ r = <<fb'[1].service>> \o r'
            /\ calls'[UnregisterItemCall(fb'[1].service)]
                    = calls[UnregisterItemCall(fb'[1].service)] + 1
            /\ r2' = r2
    /\ (fb # None /\ fb' = None /\ pc' = "running") =>
            /\ r2' = Append(r2, NoneEvent(fb[1].service))
            /\ calls' = calls
            /\ r' = r

C13_OneSessionPerPeer ==
    \A i, j \in 1..Len(sessions) :
        sessions[i].service = sessions[j].service => i = j

\* C14 (session isolation of progress), under FairSpec, where a peer may stop
\* answering and its session then waits at its property fetch for ever: (a) a
\* session waiting for the replies of a peer gets them applied by the aggregator,
\* unless the peer stops answering or the process ends; (b) once a liveness task
\* has seen its peer's owner absent, the peer is unregistered, one (peer, None)
\* per such session is applied and the peer is out of the map, unless the process
\* ends; (c) while a "registered" signal waits in the stream, the discovery loop
\* launches one more session, unless the process ends. All three whatever the
\* other peer does.
SnapshotApplied(i) ==
    \E k \in 1..Len(applied) :
        applied[k] = [service |-> sessions[i].service, item |-> sessions[i].item]

Settled(p) ==
    /\ \A i \in SessionsOf(p) : sessions[i].live # "absent"
    /\ CountIn(applied, NoneEvent(p)) = Cardinality(Reported(p))
    /\ calls[UnregisterItemCall(p)] >= Cardinality(Reported(p))
    /\ p \notin DOMAIN items

C14_Snapshot ==
    \A i \in 1..MaxBusCalls :
        (i <= Len(sessions) /\ sessions[i].snap = "fetch")
            ~> \/ Stopped
               \/ /\ i <= Len(sessions)
                  /\ \/ conn[sessions[i].service] # "open"
                     \/ sessions[i].snap = "drain" /\ SnapshotApplied(i)

C14_Departure ==
    \A p \in Peers :
        (pc = "running" /\ \E i \in SessionsOf(p) : sessions[i].live = "absent")
            ~> (Stopped \/ Settled(p))

C14_Discovery ==
    \A n \in 0..MaxBusCalls :
        (pc = "running" /\ stream # << >> /\ Len(sessions) = n)
            ~> (Stopped \/ Len(sessions) > n)

C14_Isolation == C14_Snapshot /\ C14_Departure /\ C14_Discovery

\* C14 witness: p2 does not answer and its session waits at the fetch, while
\* p1's snapshot was applied and, after its departure, its removal.
C14_Witness ==
    /\ pc = "running"
    /\ conn["p2"] = "hung"
    /\ \E i \in SessionsOf("p2") : sessions[i].snap = "fetch"
    /\ \E i \in SessionsOf("p1") : SnapshotApplied(i)
    /\ Settled("p1") /\ Reported("p1") # {}

\* C15 (session termination): under FairSpec, a session that has sent its
\* snapshot and reported its peer's departure is eventually over (its try_join
\* has returned), or the process has ended.
C15_SessionTerminates ==
    \A i \in 1..MaxBusCalls :
        (i <= Len(sessions) /\ sessions[i].snap = "drain" /\ sessions[i].live = "sent")
            ~> (Stopped \/ (i <= Len(sessions) /\ Joined(sessions[i])))

\* C17 (no stale tray entry): under FairSpec, once a peer's name has lost its
\* owner, from some moment on the aggregate map never holds that peer, whatever
\* the order in which the snapshot tasks, the liveness tasks, the feedback loop
\* and the aggregator run, however many sessions the peer has, and whether or
\* not someone registers the identifier again.
C17_NoStaleEntry ==
    \A p \in Peers : [](conn[p] = "closed" => <>[](p \notin DOMAIN items))

\* C17 witness: p1 was registered twice and has two sessions; both snapshots
\* were applied, its connection closed, both removals were applied, and the map
\* no longer holds p1.
C17_Witness ==
    /\ pc = "running"
    /\ conn["p1"] = "closed"
    /\ Cardinality(SessionsOf("p1")) = 2
    /\ Len(applied) = 4
    /\ IsSomeFor(applied[1], "p1") /\ IsSomeFor(applied[2], "p1")
    /\ applied[3] = NoneEvent("p1") /\ applied[4] = NoneEvent("p1")
    /\ "p1" \notin DOMAIN items

\* C18 (no missed registration): under FairSpec, whenever a register(p) call has
\* returned Ok (its "registered" signal was emitted), a session of p is
\* eventually launched, or the process ends.
C18_NoMissedRegistration ==
    \A p \in Peers :
        [](emitted[ItemRegistered(p)] > 0 => <>(Stopped \/ SessionsOf(p) # {}))

\* C19 (aggregate follows registry): in every quiescent state (nothing in the
\* stream or in either channel, no call of the feedback loop in flight, no
\* liveness task about to report) every key of the aggregate map is in the
\* watcher's set.
Quiescent ==
    /\ pc = "running"
    /\ stream = << >> /\ r = << >> /\ r2 = << >> /\ fb = None
    /\ \A i \in 1..Len(sessions) : sessions[i].live # "absent"

C19_AggregateFollowsRegistry == Quiescent => DOMAIN items \subseteq watcher.items

\* C16 (registry frame conditions), under WatcherSpec: a peer enters the set
\* only in a step serving register of that peer and leaves it only in a step
\* serving unregister of that peer; such a step changes the membership of no
\* other peer and leaves the consumer flag as it was; a step serving
\* registerConsumer and a step in which a bus caller reads a property leave the
\* set as it was; what the caller gets is 1 for the protocol version, the flag
\* for the consumer flag and the elements of the set for the item list.
Registers(p) == calls'[RegisterItemCall(p)] = calls[RegisterItemCall(p)] + 1
Unregisters(p) == calls'[UnregisterItemCall(p)] = calls[UnregisterItemCall(p)] + 1
RegistersHost == \E h \in HostNames : calls'[RegisterHostCall(h)] = calls[RegisterHostCall(h)] + 1
Reads == busCalls' = busCalls + 1 /\ calls' = calls

C16_Step ==
    /\ \A p \in Peers :
            /\ (p \in watcher'.items /\ p \notin watcher.items) => Registers(p)
            /\ (p \notin watcher'.items /\ p \in watcher.items) => Unregisters(p)
            /\ (Registers(p) \/ Unregisters(p)) =>
                    /\ watcher'.items \ {p} = watcher.items \ {p}
                    /\ watcher'.registered = watcher.registered
    /\ RegistersHost => watcher'.items = watcher.items
    /\ Reads =>
            /\ watcher' = watcher
            /\ got' # None
            /\ Unwrap(got').prop = "ProtocolVersion" => Unwrap(got').value = 1
            /\ Unwrap(got').prop = "IsStatusNotifierHostRegistered"
                    => Unwrap(got').value = watcher.registered
            /\ Unwrap(got').prop = "RegisteredStatusNotifierItems"
                    => Unwrap(got').value = watcher.items

C16_FrameConditions == [][C16_Step]_vars

\* C16 witness: a caller read the item list while it held p1 alone; p1 was
\* unregistered afterwards, and what the caller got still holds p1.
C16_Witness ==
    /\ got = Some([prop |-> "RegisteredStatusNotifierItems", value |-> {"p1"}])
    /\ calls[UnregisterItemCall("p1")] = 1
    /\ watcher.items = {}
    /\ watcher.registered

\* C20 (mutation precedes notification): a step serving register(p) leaves p in
\* the set and a step serving unregister(p) leaves it out, whatever the call
\* returns; a "registered" signal for p is emitted only in a step that leaves p
\* in the set, an "unregistered" signal only in one that leaves it out, and
\* either only together with the item list's property-changed notification and an
\* Ok reply; a call that returns an error has changed the set all the same and
\* has not emitted its signal.
SignalEmitted(n) == emitted'[n] > emitted[n]

C20_Step(p) ==
    /\ Registers(p) =>
            /\ watcher'.items = watcher.items \cup {p}
            /\ reply' \in {"ok", "err"}
            /\ reply' = "ok" <=> SignalEmitted(ItemRegistered(p))
    /\ Unregisters(p) =>
            /\ watcher'.items = watcher.items \ {p}
            /\ reply' \in {"ok", "err"}
            /\ reply' = "ok" <=> SignalEmitted(ItemUnregistered(p))
    /\ SignalEmitted(ItemRegistered(p)) =>
            /\ Registers(p)
            /\ p \in watcher'.items
            /\ emitted'[ItemRegistered(p)] = emitted[ItemRegistered(p)] + 1
            /\ emitted'[ItemsChanged] = emitted[ItemsChanged] + 1
    /\ SignalEmitted(ItemUnregistered(p)) =>
            /\ Unregisters(p)
            /\ p \notin watcher'.items
            /\ emitted'[ItemUnregistered(p)] = emitted[ItemUnregistered(p)] + 1
            /\ emitted'[ItemsChanged] = emitted[ItemsChanged] + 1

C20_MutationFirst == [][\A p \in Peers : C20_Step(p)]_vars

\* C20 witness: register("p1") failed at its signal: the caller got an error,
\* p1 is in the set, the property-changed notification went out, the signal did
\* not.
C20_Witness ==
    /\ calls[RegisterItemCall("p1")] = 1
    /\ busCalls = 1
    /\ reply = "err"
    /\ "p1" \in watcher.items
    /\ emitted[ItemsChanged] = 1
    /\ emitted[ItemRegistered("p1")] = 0

====
